---- MODULE Spec2Model ----
(***************************************************************************)
(* Laser beam detector: the pure per-frame detector detectLaser and the    *)
(* useLaserDetector hook (calibration, smoothing, frame-processing effect) *)
(* of src/src/hooks/useLaserDetector.ts.                                   *)
(*                                                                         *)
(* Numbers.  The code computes in IEEE doubles.  Every comparison of the   *)
(* detector is between small decimals, so it is modelled in exact integer  *)
(* arithmetic on scaled values: a brightness is carried as the channel sum *)
(* r+g+b (three times the brightness), a threshold as 100 times its value. *)
(* For every integer sensitivity 0..100 and every channel value 0..255 the *)
(* double comparison and the exact one agree, except at the two places     *)
(* named BloomRatioRoundsLow and BloomScaledRoundsLow below, where the     *)
(* double threshold is one ulp below the decimal and an equal value passes *)
(* the strict comparison.  Averages are carried as reduced fractions.      *)
(***************************************************************************)
EXTENDS Integers, Sequences, FiniteSets, TLC

VARIABLES
    frame,          \* the ImageData last read from the canvas
    settings,       \* React state `settings`: the value of the latest setSettings
    state,          \* React state `state`: the value after the latest setState
    rendered,       \* the values of the last commit: what the UI shows, what
                    \* the callbacks close over, the effect's dependencies
    effects,        \* runs of the frame processing effect that still have a
                    \* timeout or an animation-frame callback scheduled
    sessions,       \* calibration passes whose collectFrame is still scheduled
    positionHistory,\* positionHistoryRef.current
    fpsHistory,     \* fpsHistoryRef.current
    calibrationData,\* calibrationDataRef.current
    streamRef,      \* streamRef.current
    streams,        \* the MediaStreams whose tracks have not been stopped
    calls,          \* startCamera invocations that are awaiting a promise
    raw,            \* what detectLaser returned for the frame last processed
    log,            \* the raw results of the frames the current effect run processed
    pc,             \* what the driver did last
    sw              \* the service worker: its cache, the request it serves
                    \* and where its fetch handler stands

vars == <<frame, settings, state, rendered, effects, sessions, positionHistory,
          fpsHistory, calibrationData, streamRef, streams, calls, raw, log, pc, sw>>

null == "null"

\* No service worker is part of the run.
NoWorker == [phase |-> "none"]

(***************************************************************************)
(* detectLaser                                                             *)
(***************************************************************************)

step == 2
bloomRadius == 15
BloomStep == 3

\* The refinement run over the neighbourhood of the bloom check.
refineRadiusOfBloom == bloomRadius

refineRadius == 10

Max(a, b) == IF a >= b THEN a ELSE b
Min(a, b) == IF a <= b THEN a ELSE b

\* Truncation in place of rounding.
MathTrunc(n, d) == n \div d

\* Math.round of the quotient n/d, d > 0: the nearest integer, halves upward.
MathRound(n, d) == (2 * n + d) \div (2 * d)

\* const i = (y * width + x) * 4
PixelIndex(imageData, x, y) == (y * imageData.width + x) * 4

\* r + g + b of the pixel at byte offset i: three times its `brightness`.
Brightness3(data, i) == data[i] + data[i + 1] + data[i + 2]

\* 100 * saturationThreshold, 100 * bloomThreshold, 100 * minScore.
saturationThreshold(st) == 25000 - st.sensitivity * 50
bloomThreshold(st) == 20000 - st.sensitivity * 80
minScore(st) == 20000 - st.sensitivity * 100

\* Sensitivities at which the double 0.15 - sensitivityFactor * 0.1 lies below
\* the decimal it stands for, so that a sampled ratio equal to the decimal
\* still passes `bloomRatio > ...`.
BloomRatioRoundsLow == {10, 40, 50, 75, 80, 90, 100}

\* Sensitivities at which the double bloomThreshold * 0.7 lies below the
\* decimal and a brightness equal to the decimal passes `brightness > ...`.
BloomScaledRoundsLow == {25}

\* brightness < bloomThreshold
BelowBloom(sum3, st) == 100 * sum3 < 3 * bloomThreshold(st)

\* brightness > 250
VeryBright(sum3) == sum3 > 750

\* brightness > bloomThreshold * 0.7
IsBloomPixel(sum3, st) ==
    \/ 1000 * sum3 > 21 * bloomThreshold(st)
    \/ /\ 1000 * sum3 = 21 * bloomThreshold(st)
       /\ st.sensitivity \in BloomScaledRoundsLow

\* brightness > saturationThreshold
IsSaturatedPixel(sum3, st) == 100 * sum3 > 3 * saturationThreshold(st)

IsSaturatedGreen(r, g, b, st) ==
    /\ 100 * g >= saturationThreshold(st)
    /\ (g - Max(r, b) > 20 \/ (g > 250 /\ r > 200 /\ b > 150))

IsGreenBloomNoBlue(r, g, b, st) ==
    /\ 100 * g > bloomThreshold(st)
    /\ 10 * g > 9 * r

IsGreenBloom(r, g, b, st) ==
    /\ 100 * g > bloomThreshold(st)
    /\ 10 * g > 9 * r
    /\ 10 * g > 11 * b

IsSaturatedRed(r, g, b, st) ==
    /\ 100 * r >= saturationThreshold(st)
    /\ (r - Max(g, b) > 20 \/ (r > 250 /\ g > 150 /\ b > 100))

IsRedBloom(r, g, b, st) ==
    /\ 100 * r > bloomThreshold(st)
    /\ 10 * r > 12 * g
    /\ 10 * r > 13 * b

\* The score without the bonus of very bright pixels.
ChannelScoreNoBonus(c, dominance, sum3) ==
    c + (IF dominance > 0 THEN dominance * 2 ELSE 0)

\* g + (greenDominance > 0 ? greenDominance * 2 : 0) + (brightness > 250 ? 100 : 0)
ChannelScore(c, dominance, sum3) ==
    c + (IF dominance > 0 THEN dominance * 2 ELSE 0)
      + (IF VeryBright(sum3) THEN 100 ELSE 0)

\* The body of the scan loop for one pixel: the candidates it pushes.
ScanPixel(imageData, st, x, y) ==
    LET data == imageData.data
        i    == PixelIndex(imageData, x, y)
        r    == data[i]
        g    == data[i + 1]
        b    == data[i + 2]
        sum3 == r + g + b
        greenOn  == st.colorMode \in {"green", "auto"}
        redOn    == st.colorMode \in {"red", "auto"}
        greenHit == greenOn /\ (IsSaturatedGreen(r, g, b, st) \/ IsGreenBloom(r, g, b, st))
        score1   == IF greenHit THEN ChannelScore(g, g - Max(r, b), sum3) ELSE 0
        redHit   == redOn /\ (IsSaturatedRed(r, g, b, st) \/ IsRedBloom(r, g, b, st))
        redScore == ChannelScore(r, r - Max(g, b), sum3)
        redWins  == redHit /\ redScore > score1
        isLaserCandidate == greenHit \/ redWins
        score    == IF redWins THEN redScore ELSE score1
    IN  IF BelowBloom(sum3, st) THEN <<>>
        ELSE IF isLaserCandidate /\ score > 0
             THEN <<[x |-> x, y |-> y, r |-> r, g |-> g, b |-> b, score |-> score]>>
             ELSE <<>>

\* for (x = ...; x < width; x += step): the candidates one row pushes from
\* pixel (x, y) on.
RECURSIVE ScanRow(_, _, _, _)
ScanRow(imageData, st, x, y) ==
    IF x >= imageData.width THEN <<>>
    ELSE ScanPixel(imageData, st, x, y) \o ScanRow(imageData, st, x + step, y)

\* for (y = ...; y < height; y += step): the candidates pushed from row y on,
\* in raster order.
RECURSIVE ScanFrom(_, _, _)
ScanFrom(imageData, st, y) ==
    IF y >= imageData.height THEN <<>>
    ELSE ScanRow(imageData, st, 0, y) \o ScanFrom(imageData, st, y + step)

\* A sort that puts, of two candidates with one score, the later pushed first.
SortRankLatestFirst(cands, i) ==
    1 + Cardinality({j \in 1..Len(cands) :
                       \/ cands[j].score > cands[i].score
                       \/ cands[j].score = cands[i].score /\ j > i})

\* candidates.sort((a, b) => b.score - a.score): Array.prototype.sort is
\* stable, so a candidate comes behind exactly those that score higher and
\* those that score the same and were pushed earlier.
SortRank(cands, i) ==
    1 + Cardinality({j \in 1..Len(cands) :
                       \/ cands[j].score > cands[i].score
                       \/ cands[j].score = cands[i].score /\ j < i})

SortByScore(cands) ==
    [k \in 1..Len(cands) |-> cands[CHOOSE i \in 1..Len(cands) : SortRank(cands, i) = k]]

InBounds(imageData, nx, ny) ==
    ~(nx < 0 \/ nx >= imageData.width \/ ny < 0 \/ ny >= imageData.height)

\* One row of the bloom loop from offset dx on: <<bloomPixels, totalChecked>>.
RECURSIVE BloomRow(_, _, _, _, _)
BloomRow(imageData, st, top, dx, dy) ==
    IF dx > bloomRadius THEN <<0, 0>>
    ELSE LET rest == BloomRow(imageData, st, top, dx + BloomStep, dy)
             nx == top.x + dx
             ny == top.y + dy
         IN  IF ~InBounds(imageData, nx, ny) THEN rest
             ELSE IF IsBloomPixel(Brightness3(imageData.data, PixelIndex(imageData, nx, ny)), st)
                  THEN <<rest[1] + 1, rest[2] + 1>>
                  ELSE <<rest[1], rest[2] + 1>>

\* The bloom loop from row dy on.
RECURSIVE BloomFrom(_, _, _, _)
BloomFrom(imageData, st, top, dy) ==
    IF dy > bloomRadius THEN <<0, 0>>
    ELSE LET row  == BloomRow(imageData, st, top, -bloomRadius, dy)
             rest == BloomFrom(imageData, st, top, dy + BloomStep)
         IN  <<row[1] + rest[1], row[2] + rest[2]>>

\* The bloom check with the threshold of sensitivity 0 at every sensitivity.
hasBloomFixed(bloomPixels, totalChecked, st) ==
    1000 * (IF totalChecked > 0 THEN bloomPixels ELSE 0)
       > 150 * (IF totalChecked > 0 THEN totalChecked ELSE 1)

\* bloomRatio > 0.15 - (sensitivityFactor * 0.1), bloomRatio = 0 when nothing
\* was checked.
hasBloom(bloomPixels, totalChecked, st) ==
    LET lhs == IF totalChecked > 0 THEN 1000 * bloomPixels ELSE 0
        rhs == (150 - st.sensitivity) * (IF totalChecked > 0 THEN totalChecked ELSE 1)
    IN  \/ lhs > rhs
        \/ lhs = rhs /\ st.sensitivity \in BloomRatioRoundsLow

\* One row of the refinement loop from offset dx on: <<sumX, sumY, sumWeight>>,
\* each three times the code's value (weights are channel sums).
RECURSIVE RefineRow(_, _, _, _, _)
RefineRow(imageData, st, top, dx, dy) ==
    IF dx > refineRadius THEN <<0, 0, 0>>
    ELSE LET rest == RefineRow(imageData, st, top, dx + 1, dy)
             nx == top.x + dx
             ny == top.y + dy
             w3 == Brightness3(imageData.data, PixelIndex(imageData, nx, ny))
         IN  IF ~InBounds(imageData, nx, ny) THEN rest
             ELSE IF IsSaturatedPixel(w3, st)
                  THEN <<rest[1] + nx * w3, rest[2] + ny * w3, rest[3] + w3>>
                  ELSE rest

\* The refinement loop from row dy on.
RECURSIVE RefineFrom(_, _, _, _)
RefineFrom(imageData, st, top, dy) ==
    IF dy > refineRadius THEN <<0, 0, 0>>
    ELSE LET row  == RefineRow(imageData, st, top, -refineRadius, dy)
             rest == RefineFrom(imageData, st, top, dy + 1)
         IN  <<row[1] + rest[1], row[2] + rest[2], row[3] + rest[3]>>

NotFound == [found |-> FALSE, x |-> 0, y |-> 0, intensity |-> 0, detectedColor |-> null]

\* The colour decision with green reported when the channels are equal.
detectedColorGreenOnTie(topCandidate) ==
    IF topCandidate.g >= topCandidate.r THEN "green" ELSE "red"

\* if (topCandidate.g > topCandidate.r) detectedColor = 'green' else 'red'
detectedColor(topCandidate) ==
    IF topCandidate.g > topCandidate.r THEN "green" ELSE "red"

\* The intensity without its cap.
intensityUncapped(maxScore) == MathRound(maxScore, 4)

\* Math.min(100, Math.round(maxScore / 4))
intensity(maxScore) == Min(100, MathRound(maxScore, 4))

detectLaser(imageData, st) ==
    LET candidates == ScanFrom(imageData, st, 0)
    IN  IF Len(candidates) = 0 THEN NotFound
        ELSE
        LET topCandidate == SortByScore(candidates)[1]
            bloom == BloomFrom(imageData, st, topCandidate, -bloomRadius)
            foundBeam == /\ 100 * topCandidate.score > minScore(st)
                         /\ hasBloom(bloom[1], bloom[2], st)
            sums == RefineFrom(imageData, st, topCandidate, -refineRadius)
            maxX == IF sums[3] > 0 THEN MathRound(sums[1], sums[3]) ELSE topCandidate.x
            maxY == IF sums[3] > 0 THEN MathRound(sums[2], sums[3]) ELSE topCandidate.y
        IN  IF foundBeam
            THEN [found |-> TRUE, x |-> maxX, y |-> maxY,
                  intensity |-> intensity(topCandidate.score),
                  detectedColor |-> detectedColor(topCandidate)]
            ELSE NotFound

(***************************************************************************)
(* Input frames                                                            *)
(***************************************************************************)

\* ctx.getImageData(0, 0, width, height): width * height RGBA pixels, row-major.
\* pixelAt[x, y] is the <<r, g, b>> of each pixel; alpha is 255.
ImageData(w, h, pixelAt) ==
    [width |-> w, height |-> h,
     data |-> [i \in 0..(4 * w * h - 1) |->
                 IF i % 4 = 3 THEN 255
                 ELSE pixelAt[(i \div 4) % w, (i \div 4) \div w][(i % 4) + 1]]]

\* A frame of one colour.
UniformFrame(w, h, colour) ==
    ImageData(w, h, [x \in 0..(w - 1), y \in 0..(h - 1) |-> colour])

\* A dark frame with one size x size patch of `colour` whose top-left pixel
\* is (px, py).
PatchFrame(w, h, px, py, size, colour) ==
    ImageData(w, h, [x \in 0..(w - 1), y \in 0..(h - 1) |->
                       IF x >= px /\ x < px + size /\ y >= py /\ y < py + size
                       THEN colour ELSE <<0, 0, 0>>])

Green == <<0, 255, 0>>
Red == <<255, 0, 0>>
White == <<255, 255, 255>>
HotGreen == <<230, 255, 230>>
Gray == <<128, 128, 128>>

\* The 21 x 21 patch of the synthetic test frames can start at any of
\* (0..MaxPatchOffset)^2 in a frame one pixel wider than that needs.
MaxPatchOffset == 2
PatchSide == MaxPatchOffset + 22
PatchOffsets == (0..MaxPatchOffset) \X (0..MaxPatchOffset)
PatchColours == {Green, Red, White, HotGreen}

PatchAt == [o \in PatchOffsets, c \in PatchColours |->
              PatchFrame(PatchSide, PatchSide, o[1], o[2], 21, c)]

\* Uniform gray frames of every size up to MaxGraySide x MaxGraySide.
MaxGraySide == 3
GrayFrames == {UniformFrame(w, h, Gray) : w \in 1..MaxGraySide, h \in 1..MaxGraySide}

ColorModes == {"red", "green", "auto"}
Sensitivities == 0..100

\* DEFAULT_SETTINGS
DefaultSettings == [sensitivity |-> 50, colorMode |-> "auto", smoothing |-> 3]

PatchInputs ==
    {<<PatchAt[o, c], [DefaultSettings EXCEPT !.colorMode = m]>> :
        o \in PatchOffsets, c \in PatchColours, m \in ColorModes}

GrayInputs ==
    {<<f, [DefaultSettings EXCEPT !.colorMode = m, !.sensitivity = s]>> :
        f \in GrayFrames, m \in ColorModes, s \in Sensitivities}

(***************************************************************************)
(* Fractions: the doubles the hook computes from integers by + and /       *)
(***************************************************************************)

\* The element of a one-element set.  An operator evaluates an argument anew
\* wherever it is used; a bound variable holds its value.
The(S) == CHOOSE v \in S : TRUE

RECURSIVE Gcd(_, _)
Gcd(a, b) == IF b = 0 THEN a ELSE The({Gcd(b, r) : r \in {a % b}})

Abs(a) == IF a < 0 THEN -a ELSE a

\* The fraction n/d (d > 0) in lowest terms, as <<numerator, denominator>>.
Frac(n, d) ==
    LET g == Gcd(Abs(n), d)
    IN  <<n \div g, d \div g>>

FracAdd(p, q) == Frac(p[1] * q[2] + q[1] * p[2], p[2] * q[2])

\* reduce((a, b) => a + b, 0) over a sequence of fractions (the sum of
\* fractions is exact, so the order of the additions does not matter)
RECURSIVE FracSum(_)
FracSum(seq) ==
    The({IF s = <<>> THEN <<0, 1>>
         ELSE IF Len(s) = 1 THEN s[1]
         ELSE The({FracAdd(a, b) :
                     a \in {FracSum(SubSeq(s, 1, Len(s) \div 2))},
                     b \in {FracSum(SubSeq(s, Len(s) \div 2 + 1, Len(s)))}}) :
         s \in {seq}})

(***************************************************************************)
(* The hook's state after construction (useRef / useState initial values)  *)
(***************************************************************************)

NoFrame == [width |-> 0, height |-> 0, data |-> <<>>]

\* calibrationDataRef.current = null
NoCalibration == [present |-> FALSE, avgBrightness |-> <<0, 1>>, threshold |-> <<0, 1>>]

\* streamRef.current = null; MediaStreams are numbered from 1.
NoStream == 0

\* A DetectionResult as published in `state`: x and y are fractions.
Published(d, x, y) ==
    [found |-> d.found, x |-> x, y |-> y, intensity |-> d.intensity,
     detectedColor |-> d.detectedColor]

InitialState ==
    [cameraActive |-> FALSE, fps |-> 0,
     detection |-> Published(NotFound, <<0, 1>>, <<0, 1>>),
     error |-> null, calibrating |-> FALSE, calibrationComplete |-> FALSE]

\* The dependency list of the frame processing effect, as of `st` and `se`.
Deps(st, se) ==
    [cameraActive |-> st.cameraActive, calibrating |-> st.calibrating, settings |-> se]

HookInit ==
    /\ frame = NoFrame
    /\ settings = DefaultSettings
    /\ state = InitialState
    /\ rendered = Deps(InitialState, DefaultSettings)
    /\ effects = <<>>
    /\ sessions = <<>>
    /\ positionHistory = <<>>
    /\ fpsHistory = <<>>
    /\ calibrationData = NoCalibration
    /\ streamRef = NoStream
    /\ streams = {}
    /\ calls = <<>>
    /\ raw = NotFound
    /\ log = <<>>
    /\ pc = "hook"
    /\ sw = NoWorker

(***************************************************************************)
(* Camera frames and settings of the hook's specifications                 *)
(***************************************************************************)

\* A 3 x 3 frame that is dark, or dark but for one white pixel.
DarkFrame == UniformFrame(3, 3, <<0, 0, 0>>)
SpotFrame(x, y) == PatchFrame(3, 3, x, y, 1, White)
SpotPositions == {<<0, 0>>, <<2, 2>>}
SpotFrames == {SpotFrame(p[1], p[2]) : p \in SpotPositions}
CameraFrames == {DarkFrame} \cup SpotFrames

\* The smoothing slider is moved within 0..MaxSmoothing, the sensitivity
\* slider between its default and its maximum.
MaxSmoothing == 3
SensitivityChoices == {DefaultSettings.sensitivity, 100}
SettingsChoices ==
    {[DefaultSettings EXCEPT !.smoothing = v, !.sensitivity = s] :
        v \in 0..MaxSmoothing, s \in SensitivityChoices}

\* detectLaser(imageData, settings), tabulated over the camera frames and
\* the settings the hook's specifications draw from.
Detection == [f \in CameraFrames, st \in SettingsChoices |-> detectLaser(f, st)]

\* The display refreshes every FrameMs milliseconds.
FrameMs == 1000

(***************************************************************************)
(* smoothPosition and the frame processing effect                          *)
(***************************************************************************)

\* positionHistoryRef.current after smoothPosition's push and shift.
PushPositionLate(history, x, y, smoothing) ==
    LET pushed == Append(history, <<x, y>>)
    IN  IF Len(pushed) > smoothing + 2 THEN Tail(pushed) ELSE pushed

PushPosition(history, x, y, smoothing) ==
    LET pushed == Append(history, <<x, y>>)
    IN  IF Len(pushed) > smoothing + 1 THEN Tail(pushed) ELSE pushed

\* The { x: avgX, y: avgY } smoothPosition returns for the history it leaves.
AveragePosition(history, x, y) ==
    IF Len(history) = 0 THEN <<Frac(x, 1), Frac(y, 1)>>
    ELSE LET sumX == FracSum([k \in 1..Len(history) |-> <<history[k][1], 1>>])
             sumY == FracSum([k \in 1..Len(history) |-> <<history[k][2], 1>>])
         IN  <<Frac(sumX[1], sumX[2] * Len(history)), Frac(sumY[1], sumY[2] * Len(history))>>

\* if (detection.found && settings.smoothing > 0)
SmoothsAlways(d, st) == d.found /\ st.smoothing >= 0

Smooths(d, st) == d.found /\ st.smoothing > 0

\* positionHistoryRef.current = [] (a frame without detection)
HistoryKeptOnLoss(history) == history

HistoryOnLoss(history) == <<>>

\* The smoothing branch with the reset skipped when smoothing is off.
SmoothingBranchResetIfSmoothing(history, d, st) ==
    IF Smooths(d, st)
    THEN LET h == PushPosition(history, d.x, d.y, st.smoothing)
             avg == AveragePosition(h, d.x, d.y)
         IN  <<h, avg[1], avg[2]>>
    ELSE IF ~d.found /\ st.smoothing > 0
    THEN <<HistoryOnLoss(history), Frac(d.x, 1), Frac(d.y, 1)>>
    ELSE <<history, Frac(d.x, 1), Frac(d.y, 1)>>

\* The smoothing branch of processFrame: <<positionHistory, x, y>> after it.
SmoothingBranch(history, d, st) ==
    IF Smooths(d, st)
    THEN LET h == PushPosition(history, d.x, d.y, st.smoothing)
             avg == AveragePosition(h, d.x, d.y)
         IN  <<h, avg[1], avg[2]>>
    ELSE IF ~d.found THEN <<HistoryOnLoss(history), Frac(d.x, 1), Frac(d.y, 1)>>
    ELSE <<history, Frac(d.x, 1), Frac(d.y, 1)>>

FpsCapacity == 30

\* fpsHistoryRef.current after the push and shift of one sample.
PushFpsEvictNewest(history, sample) ==
    IF Len(history) >= FpsCapacity THEN history ELSE Append(history, sample)

PushFpsTwice(history, sample) == Append(Append(history, sample), sample)

PushFps(history, sample) ==
    LET pushed == Append(history, sample)
    IN  IF Len(pushed) > FpsCapacity THEN Tail(pushed) ELSE pushed

\* Math.round(sum / length) of the fps samples.
AverageFpsFloor(history) ==
    LET sum == FracSum(history)
    IN  sum[1] \div (sum[2] * Len(history))

AverageFps(history) ==
    LET sum == FracSum(history)
    IN  MathRound(sum[1], sum[2] * Len(history))

TimeoutMs == 100
CalibrationMs == 2000

\* One run of the effect body: isActive, the timeout (milliseconds left, -1
\* once fired or cleared), the animation-frame request frameId stands for
\* ("none", "requested", or "ready" once its frame has come), the time since
\* lastTime (-1 while lastTime is 0), and the settings the run closes over.
NewEffect(se) ==
    [isActive |-> TRUE, timeout |-> TimeoutMs, frameId |-> "none", sinceLast |-> -1,
     settings |-> se]

\* A cleanup that clears the timeout and leaves the loop running.
CleanupTimeoutOnly(e) == [e EXCEPT !.timeout = -1]

\* The effect's cleanup function.
Cleanup(e) == [e EXCEPT !.isActive = FALSE, !.timeout = -1, !.frameId = "none"]

\* A run that has nothing scheduled any more can never act again.
Scheduled(e) == e.timeout >= 0 \/ e.frameId # "none"

\* if (!state.cameraActive || state.calibrating) return;
EffectRunsIgnoringCalibration(d) == d.cameraActive

EffectRuns(d) == d.cameraActive /\ ~d.calibrating

\* A commit of an effect that returns no cleanup function.
CommitWithoutCleanup(st, se, effs) ==
    IF Deps(st, se) = rendered THEN effs
    ELSE IF EffectRuns(Deps(st, se)) THEN Append(effs, NewEffect(se))
    ELSE effs

\* A commit: React re-renders with the latest state and settings; when a
\* dependency of the effect changed it runs the cleanup of the previous run
\* and then the effect body.
Commit(st, se, effs) ==
    LET d == Deps(st, se)
        cleaned == SelectSeq([k \in 1..Len(effs) |->
                                IF effs[k].isActive THEN Cleanup(effs[k]) ELSE effs[k]],
                             Scheduled)
    IN  IF d = rendered THEN effs
        ELSE IF EffectRuns(d) THEN Append(cleaned, NewEffect(se))
        ELSE cleaned

\* The log holds the raw results of the last LogLength frames the current run
\* of the effect has processed; it starts anew with every run of the effect.
LogLength == MaxSmoothing + 2

Logged(d) == [found |-> d.found, x |-> d.x, y |-> d.y]

AppendLog(d) ==
    LET l == Append(log, Logged(d))
    IN  IF Len(l) > LogLength THEN Tail(l) ELSE l

\* The scheduled re-render after a setState or setSettings outside a
\* discrete event handler.
Render ==
    /\ Deps(state, settings) # rendered
    /\ rendered' = Deps(state, settings)
    /\ effects' = Commit(state, settings, effects)
    /\ log' = <<>>
    /\ UNCHANGED <<frame, settings, state, sessions, positionHistory, fpsHistory,
                   calibrationData, streamRef, streams, calls, raw, pc, sw>>

\* The setTimeout callback of effect run i, once its 100 ms have passed.
TimeoutFires(i) ==
    /\ i \in 1..Len(effects)
    /\ effects[i].timeout = 0
    /\ effects' = [effects EXCEPT
                     ![i].timeout = -1,
                     ![i].frameId = IF effects[i].isActive THEN "requested" ELSE @]
    /\ UNCHANGED <<frame, settings, state, rendered, sessions, positionHistory,
                   fpsHistory, calibrationData, streamRef, streams, calls, raw,
                   log, pc, sw>>

\* processFrame of effect run i, called back for an animation frame.  `ready`
\* is whether the video has enough data; imageData is what getImageData reads
\* after the video frame is drawn.
ProcessFrame(i, ready, imageData) ==
    /\ i \in 1..Len(effects)
    /\ effects[i].frameId = "ready"
    /\ LET e == effects[i]
       IN  IF ~e.isActive
           THEN /\ effects' = SelectSeq([effects EXCEPT ![i].frameId = "none"], Scheduled)
                /\ UNCHANGED <<frame, state, positionHistory, fpsHistory, raw, log>>
           ELSE IF ~ready
           THEN /\ effects' = [effects EXCEPT ![i].frameId = "requested"]
                /\ UNCHANGED <<frame, state, positionHistory, fpsHistory, raw, log>>
           ELSE LET d == Detection[imageData, e.settings]
                    sm == SmoothingBranch(positionHistory, d, e.settings)
                    detection == Published(d, sm[2], sm[3])
                    timed == e.sinceLast # -1
                    fpsH == IF timed THEN PushFps(fpsHistory, Frac(1000, e.sinceLast))
                            ELSE fpsHistory
                IN  /\ frame' = imageData
                    /\ raw' = d
                    /\ log' = AppendLog(d)
                    /\ positionHistory' = sm[1]
                    /\ fpsHistory' = fpsH
                    /\ state' = IF timed
                                THEN [state EXCEPT !.fps = AverageFps(fpsH), !.detection = detection]
                                ELSE [state EXCEPT !.detection = detection]
                    /\ effects' = [effects EXCEPT ![i].sinceLast = 0, ![i].frameId = "requested"]
    /\ UNCHANGED <<settings, rendered, sessions, calibrationData, streamRef, streams,
                   calls, pc, sw>>

(***************************************************************************)
(* Time and animation frames                                               *)
(***************************************************************************)

\* No animation-frame callback of the current frame is still to run.
FrameDone ==
    /\ \A i \in 1..Len(effects) : effects[i].frameId # "ready"
    /\ \A j \in 1..Len(sessions) : sessions[j].frameId # "ready"

\* The display's next frame comes d milliseconds after the previous one: the
\* clocks advance by d and every requested animation-frame callback is due.
Tick(d) ==
    /\ FrameDone
    /\ effects' = [i \in 1..Len(effects) |->
                     [effects[i] EXCEPT
                        !.timeout = IF @ > 0 THEN Max(0, @ - d) ELSE @,
                        !.sinceLast = IF @ >= 0 THEN @ + d ELSE @,
                        !.frameId = IF @ = "requested" THEN "ready" ELSE @]]
    /\ sessions' = [j \in 1..Len(sessions) |->
                      [sessions[j] EXCEPT
                         !.elapsed = Min(@ + d, CalibrationMs),
                         !.frameId = IF @ = "requested" THEN "ready" ELSE @]]
    /\ UNCHANGED <<frame, settings, state, rendered, positionHistory, fpsHistory,
                   calibrationData, streamRef, streams, calls, raw, log, pc, sw>>

(***************************************************************************)
(* Settings                                                                *)
(***************************************************************************)

\* SettingsPanel: onSettingsChange({ ...settings, [field]: value }).  The
\* panel is part of the footer, which is rendered while the camera is active,
\* and spreads the settings it was rendered with.
SetSettings(field, value) ==
    /\ rendered.cameraActive
    /\ settings' = [rendered.settings EXCEPT ![field] = value]
    /\ UNCHANGED <<frame, state, rendered, effects, sessions, positionHistory,
                   fpsHistory, calibrationData, streamRef, streams, calls, raw,
                   log, pc, sw>>

(***************************************************************************)
(* Calibration                                                             *)
(***************************************************************************)

\* Sum of r + g + b over the pixels 0..n-1 of data.
RECURSIVE ChannelSum(_, _)
ChannelSum(data, n) ==
    IF n = 0 THEN 0 ELSE ChannelSum(data, n - 1) + Brightness3(data, 4 * (n - 1))

\* totalBrightness / (data.length / 4)
FrameAverage(imageData) ==
    LET n == imageData.width * imageData.height
    IN  Frac(ChannelSum(imageData.data, n), 3 * n)

\* calibrationDataRef.current as collectFrame sets it when the pass is over.
CalibrationResultDropped(s) == NoCalibration

CalibrationResultLastFrame(s) ==
    LET avg == s.frames[Len(s.frames)]
    IN  [present |-> TRUE, avgBrightness |-> avg,
         threshold |-> FracAdd(avg, <<50 + (100 - s.sensitivity), 1>>)]

CalibrationResult(s) ==
    LET sum == FracSum(s.frames)
        avg == Frac(sum[1], sum[2] * Len(s.frames))
    IN  [present |-> TRUE, avgBrightness |-> avg,
         threshold |-> FracAdd(avg, <<50 + (100 - s.sensitivity), 1>>)]

\* Date.now() - startTime < 2000
StillSampling(s) == s.elapsed < CalibrationMs

\* calibrationDataRef.current = null in startCalibration
CalibrationKeptOnStart(data) == data

CalibrationOnStart(data) == NoCalibration

\* The button `Calibrate` of the settings panel (disabled while the rendered
\* state is calibrating; the panel is in the footer, rendered while the
\* camera is active).  startCalibration calls collectFrame once itself; the
\* click is a discrete event, so React commits before anything else runs.
StartCalibration(imageData) ==
    /\ rendered.cameraActive
    /\ ~rendered.calibrating
    /\ LET st == [state EXCEPT !.calibrating = TRUE, !.calibrationComplete = FALSE]
           s  == [elapsed |-> 0, frames |-> <<FrameAverage(imageData)>>,
                  frameId |-> "requested", sensitivity |-> rendered.settings.sensitivity]
       IN  /\ state' = st
           /\ calibrationData' = CalibrationOnStart(calibrationData)
           /\ sessions' = Append(sessions, s)
           /\ frame' = imageData
           /\ rendered' = Deps(st, settings)
           /\ effects' = Commit(st, settings, effects)
           /\ log' = <<>>
    /\ UNCHANGED <<settings, positionHistory, fpsHistory, streamRef, streams, calls,
                   raw, pc, sw>>

Without(seq, k) == [n \in 1..(Len(seq) - 1) |-> IF n < k THEN seq[n] ELSE seq[n + 1]]

\* collectFrame of pass j, called back for an animation frame.
CollectFrame(j, imageData) ==
    /\ j \in 1..Len(sessions)
    /\ sessions[j].frameId = "ready"
    /\ frame' = imageData
    /\ \E s \in {[sessions[j] EXCEPT !.frames = Append(@, FrameAverage(imageData))]} :
           IF StillSampling(s)
           THEN /\ sessions' = [sessions EXCEPT ![j] = [s EXCEPT !.frameId = "requested"]]
                /\ UNCHANGED <<calibrationData, state>>
           ELSE /\ sessions' = Without(sessions, j)
                /\ calibrationData' = CalibrationResult(s)
                /\ state' = [state EXCEPT !.calibrating = FALSE, !.calibrationComplete = TRUE]
    /\ UNCHANGED <<settings, rendered, effects, positionHistory, fpsHistory, streamRef,
                   streams, calls, raw, log, pc, sw>>

(***************************************************************************)
(* Camera                                                                  *)
(***************************************************************************)

\* At most MaxStreams MediaStreams are live or being acquired at a time.
MaxStreams == 2

FreeStreams ==
    (1..MaxStreams) \ (streams \cup {streamRef} \cup {calls[k].stream : k \in 1..Len(calls)})

\* The button of the intro overlay, shown while the rendered state has the
\* camera inactive: startCamera runs up to its first await.
StartCamera ==
    /\ ~rendered.cameraActive
    /\ Len(calls) < MaxStreams
    /\ calls' = Append(calls, [stage |-> "getUserMedia", stream |-> NoStream])
    /\ UNCHANGED <<frame, settings, state, rendered, effects, sessions, positionHistory,
                   fpsHistory, calibrationData, streamRef, streams, raw, log, pc, sw>>

\* getUserMedia resolves for invocation k: startCamera runs on to `await play()`.
GetUserMediaResolves(k) ==
    /\ k \in 1..Len(calls)
    /\ calls[k].stage = "getUserMedia"
    /\ FreeStreams # {}
    /\ LET n == CHOOSE n \in FreeStreams : \A m \in FreeStreams : n <= m
       IN  /\ streams' = streams \cup {n}
           /\ streamRef' = n
           /\ calls' = [calls EXCEPT ![k] = [stage |-> "play", stream |-> n]]
    /\ UNCHANGED <<frame, settings, state, rendered, effects, sessions, positionHistory,
                   fpsHistory, calibrationData, raw, log, pc, sw>>

\* A catch block that also turns the camera off.
StartCameraFailsTurnsOff(k) ==
    /\ k \in 1..Len(calls)
    /\ calls' = Without(calls, k)
    /\ state' = [state EXCEPT !.error = "message", !.cameraActive = FALSE]
    /\ UNCHANGED <<frame, settings, rendered, effects, sessions, positionHistory,
                   fpsHistory, calibrationData, streamRef, streams, raw, log, pc, sw>>

\* getUserMedia or play() rejects for invocation k: the catch block.
StartCameraFails(k) ==
    /\ k \in 1..Len(calls)
    /\ calls' = Without(calls, k)
    /\ state' = [state EXCEPT !.error = "message"]
    /\ UNCHANGED <<frame, settings, rendered, effects, sessions, positionHistory,
                   fpsHistory, calibrationData, streamRef, streams, raw, log, pc, sw>>

\* play() resolves for invocation k: startCamera runs to its end.
PlayResolves(k) ==
    /\ k \in 1..Len(calls)
    /\ calls[k].stage = "play"
    /\ calls' = Without(calls, k)
    /\ state' = [state EXCEPT !.cameraActive = TRUE, !.error = null]
    /\ UNCHANGED <<frame, settings, rendered, effects, sessions, positionHistory,
                   fpsHistory, calibrationData, streamRef, streams, raw, log, pc, sw>>

\* The stop button of the footer (rendered while the camera is active): a
\* discrete event, so React commits before anything else runs.
StopCamera ==
    /\ rendered.cameraActive
    /\ streams' = streams \ {streamRef}
    /\ streamRef' = NoStream
    /\ LET st == [state EXCEPT !.cameraActive = FALSE]
       IN  /\ state' = st
           /\ rendered' = Deps(st, settings)
           /\ effects' = Commit(st, settings, effects)
           /\ log' = <<>>
    /\ UNCHANGED <<frame, settings, sessions, positionHistory, fpsHistory,
                   calibrationData, calls, raw, pc, sw>>

(***************************************************************************)
(* Spec: the hook, driven by the user, the browser and the camera          *)
(***************************************************************************)

\* The hook after the camera has run for FpsCapacity + 1 dark frames, every
\* FrameMs, and was stopped again: fpsHistory is full.
WarmInit ==
    /\ frame = DarkFrame
    /\ settings = DefaultSettings
    /\ state = [InitialState EXCEPT !.fps = AverageFps([k \in 1..FpsCapacity |-> Frac(1000, FrameMs)])]
    /\ rendered = Deps(InitialState, DefaultSettings)
    /\ effects = <<>>
    /\ sessions = <<>>
    /\ positionHistory = <<>>
    /\ fpsHistory = [k \in 1..FpsCapacity |-> Frac(1000, FrameMs)]
    /\ calibrationData = NoCalibration
    /\ streamRef = NoStream
    /\ streams = {}
    /\ calls = <<>>
    /\ raw = NotFound
    /\ log = <<>>
    /\ pc = "hook"
    /\ sw = NoWorker

\* The start button is pressed while no earlier press is still being served.
CameraStarts ==
    \/ calls = <<>> /\ ~state.cameraActive /\ StartCamera
    \/ \E k \in 1..Len(calls) : GetUserMediaResolves(k)
    \/ \E k \in 1..Len(calls) : StartCameraFails(k)
    \/ \E k \in 1..Len(calls) : PlayResolves(k)

FramesPass ==
    \/ Tick(FrameMs)
    \/ \E i \in 1..Len(effects) : TimeoutFires(i)
    \/ \E i \in 1..Len(effects), f \in CameraFrames : ProcessFrame(i, TRUE, f)

SmoothingChanges ==
    \/ \E v \in 0..MaxSmoothing : SetSettings("smoothing", v)
    \/ Render

SensitivityChanges ==
    \/ \E v \in SensitivityChoices : SetSettings("sensitivity", v)
    \/ Render

Calibrates ==
    \/ \E f \in CameraFrames : StartCalibration(f)
    \/ \E j \in 1..Len(sessions), f \in CameraFrames : CollectFrame(j, f)

\* SpecSmooth: the camera is started and frames are processed while the
\* smoothing slider is moved.
NextSmooth == CameraStarts \/ FramesPass \/ SmoothingChanges

SpecSmooth == WarmInit /\ [][NextSmooth]_vars

\* Spec: the camera is started and stopped, frames are processed and the
\* detector is calibrated while the sensitivity slider is moved.
Next == CameraStarts \/ StopCamera \/ FramesPass \/ SensitivityChanges \/ Calibrates

Spec == WarmInit /\ [][Next]_vars

(***************************************************************************)
(* SpecDetect: detectLaser applied to one frame                            *)
(***************************************************************************)

InitDetect ==
    /\ \E input \in PatchInputs \cup GrayInputs :
          /\ frame = input[1]
          /\ settings = input[2]
    /\ state = InitialState
    /\ rendered = Deps(InitialState, DefaultSettings)
    /\ effects = <<>>
    /\ sessions = <<>>
    /\ positionHistory = <<>>
    /\ fpsHistory = <<>>
    /\ calibrationData = NoCalibration
    /\ streamRef = NoStream
    /\ streams = {}
    /\ calls = <<>>
    /\ raw = NotFound
    /\ log = <<>>
    /\ pc = "input"
    /\ sw = NoWorker

Detect ==
    /\ pc = "input"
    /\ raw' = detectLaser(frame, settings)
    /\ pc' = "detected"
    /\ UNCHANGED <<frame, settings, state, rendered, effects, sessions, positionHistory,
                   fpsHistory, calibrationData, streamRef, streams, calls, log, sw>>

NextDetect == Detect

SpecDetect == InitDetect /\ [][NextDetect]_vars

(***************************************************************************)
(* Claims about detectLaser (SpecDetect)                                   *)
(***************************************************************************)

\* detectLaser has returned `raw` for a dark frame with one 21 x 21 patch of
\* `colour` at offset o.
DetectedPatch(o, colour) == pc = "detected" /\ frame = PatchAt[o, colour]

WithinOne(a, b) == Abs(a - b) <= 1

\* C1: for a dark frame with one 21 x 21 patch of pure green (0, 255, 0),
\* colorMode auto and sensitivity 50, detectLaser returns found = true,
\* detectedColor = green, a position within 1 pixel of the patch centre and
\* an intensity above 50.
C1_GreenPatchFound ==
    \A o \in PatchOffsets :
        DetectedPatch(o, Green) /\ settings = DefaultSettings
        => /\ raw.found
           /\ raw.detectedColor = "green"
           /\ WithinOne(raw.x, o[1] + 10)
           /\ WithinOne(raw.y, o[2] + 10)
           /\ raw.intensity > 50

\* C2: for a dark frame with one 21 x 21 patch of pure red (255, 0, 0) at
\* sensitivity 50, detectLaser returns found = false with colorMode green,
\* and found = true with detectedColor = red with colorMode red or auto.
C2_RedPatchByMode ==
    \A o \in PatchOffsets :
        DetectedPatch(o, Red) /\ settings.sensitivity = 50
        => IF settings.colorMode = "green" THEN ~raw.found
           ELSE raw.found /\ raw.detectedColor = "red"

\* C3: for a frame whose pixels are all gray (128, 128, 128), detectLaser
\* returns found = false at every sensitivity and in every colorMode.
C3_UniformGrayNotFound ==
    pc = "detected" /\ frame \in GrayFrames => ~raw.found

\* detectLaser has looked at the largest gray frame at the highest
\* sensitivity, where gray pixels are brighter than bloomThreshold.
C3_Witness ==
    /\ pc = "detected"
    /\ frame = UniformFrame(MaxGraySide, MaxGraySide, Gray)
    /\ settings.sensitivity = 100
    /\ settings.colorMode = "auto"
    /\ 100 * Brightness3(frame.data, 0) > 3 * bloomThreshold(settings)
    /\ ~raw.found

(***************************************************************************)
(* Claims about smoothing (SpecSmooth)                                     *)
(***************************************************************************)

\* Run i of the effect has processed a frame and no time has passed since:
\* the frame is the last of the log, state.detection is what it published.
JustProcessed(i) == effects[i].isActive /\ effects[i].sinceLast = 0

LastRaw == log[Len(log)]

RawPosition(l) == <<Frac(l.x, 1), Frac(l.y, 1)>>

Reported(st) == <<st.detection.x, st.detection.y>>

\* A step in which run i of the effect processes a frame: its pending
\* animation-frame callback runs and sets lastTime.  The raw result of the
\* frame is the last entry of log'.
Processes(i) ==
    /\ effects[i].isActive
    /\ effects[i].frameId = "ready"
    /\ Len(effects') = Len(effects)
    /\ effects'[i].sinceLast = 0

\* C4: when a frame without detection has been processed and the next
\* processed frame has a detection, that frame is reported at exactly its raw
\* position.
C4_ResetOnLoss ==
    [][\A i \in 1..Len(effects) :
          /\ ~state.detection.found
          /\ Processes(i)
          /\ log'[Len(log')].found
          => Reported(state') = RawPosition(log'[Len(log')])]_vars

\* A run of found frames at one position, a frame without detection, and a
\* found frame at the other position have been processed with smoothing on:
\* the last is reported where it was detected.
C4_Witness ==
    /\ Len(log) >= 3
    /\ log[Len(log) - 2].found
    /\ ~log[Len(log) - 1].found
    /\ LastRaw.found
    /\ LastRaw # log[Len(log) - 2]
    /\ \E i \in 1..Len(effects) : JustProcessed(i) /\ effects[i].settings.smoothing > 0
    /\ Reported(state) = RawPosition(LastRaw)

\* C5: after every processed frame positionHistory holds at most
\* smoothing + 1 entries, smoothing being the value the frame was processed
\* with, whatever frames and settings changes came before.
C5_HistoryBounded ==
    \A i \in 1..Len(effects) :
        JustProcessed(i) => Len(positionHistory) <= effects[i].settings.smoothing + 1

\* The last n frames of the log are found frames at one raw position.
ConstantRun(n) ==
    /\ Len(log) >= n
    /\ \A k \in (Len(log) - n + 1)..Len(log) : log[k].found /\ log[k] = LastRaw

\* C6: after smoothing + 1 consecutive found frames at one raw position p,
\* processed with the current smoothing, the reported position is exactly p.
C6_Convergence ==
    \A i \in 1..Len(effects) :
        JustProcessed(i) /\ ConstantRun(effects[i].settings.smoothing + 1)
        => Reported(state) = RawPosition(LastRaw)

\* The square of the distance between a reported position and the raw
\* position of l, as a fraction <<numerator, denominator>>.
Distance2(pos, l) ==
    LET dx == pos[1][1] - l.x * pos[1][2]
        dy == pos[2][1] - l.y * pos[2][2]
    IN  <<dx * dx * pos[2][2] * pos[2][2] + dy * dy * pos[1][2] * pos[1][2],
          pos[1][2] * pos[1][2] * pos[2][2] * pos[2][2]>>

FracLeq(a, b) == a[1] * b[2] <= b[1] * a[2]

\* The log l ends with: a frame without detection, a found frames at the
\* position of the last one, one found frame elsewhere, n found frames at
\* the position of the last one.
OutlierThen(l, a, n) ==
    LET m == Len(l)
    IN  /\ n >= 1
        /\ m >= a + n + 2
        /\ ~l[m - n - a - 1].found
        /\ \A k \in (m - n - a)..(m - n - 1) : l[k] = l[m]
        /\ l[m - n].found /\ l[m - n] # l[m]
        /\ \A k \in (m - n + 1)..m : l[k] = l[m]
        /\ l[m].found

\* C7: when, with the settings fixed and starting from an empty history,
\* found frames at p, then one found frame at an outlier position, then n
\* found frames at p are processed, each of the n frames is reported no
\* farther from p than the frame before it, and exactly at p once smoothing + 1
\* frames have followed the outlier.
C7_OutlierRecovery ==
    [][\A i \in 1..Len(effects), a \in 0..(LogLength - 3), n \in 1..(LogLength - 2) :
          /\ Processes(i)
          /\ OutlierThen(log', a, n)
          => /\ FracLeq(Distance2(Reported(state'), log'[Len(log')]),
                        Distance2(Reported(state), log'[Len(log')]))
             /\ n >= effects[i].settings.smoothing + 1
                => Reported(state') = RawPosition(log'[Len(log')])]_vars

\* After a frame without detection, an outlier, and three frames at p were
\* processed with smoothing 2, the report is back at p; one frame earlier it
\* was not.
C7_Witness ==
    /\ OutlierThen(log, 0, 3)
    /\ \E i \in 1..Len(effects) : JustProcessed(i) /\ effects[i].settings.smoothing = 2
    /\ Len(positionHistory) = 3
    /\ Reported(state) = RawPosition(LastRaw)

\* C8: with smoothing 0 every found frame is reported at exactly its raw
\* position, whatever positionHistory holds.
C8_Passthrough ==
    \A i \in 1..Len(effects) :
        JustProcessed(i) /\ effects[i].settings.smoothing = 0 /\ LastRaw.found
        => Reported(state) = RawPosition(LastRaw)

\* A found frame was processed with smoothing 0 while positionHistory held
\* entries of another position.
C8_Witness ==
    /\ \E i \in 1..Len(effects) : JustProcessed(i) /\ effects[i].settings.smoothing = 0
    /\ log # <<>>
    /\ LastRaw.found
    /\ positionHistory # <<>>
    /\ \A k \in 1..Len(positionHistory) : positionHistory[k] # <<LastRaw.x, LastRaw.y>>
    /\ Reported(state) = RawPosition(LastRaw)

(***************************************************************************)
(* Claims about calibration (Spec)                                         *)
(***************************************************************************)

\* C9: while a calibration pass is still collecting frames, no step
\* processes a detection frame and no step publishes a DetectionResult.
C9_CalibrationExcludesDetection ==
    [][sessions # <<>>
       => /\ \A i \in 1..Len(effects) : ~Processes(i)
          /\ state'.detection = state.detection]_vars

\* A calibration pass, requested while detections were being published, has
\* collected frames over at least one animation frame with the camera on, and
\* no run of the effect is left.
C9_Witness ==
    /\ Len(sessions) = 1
    /\ sessions[1].elapsed > 0
    /\ Len(sessions[1].frames) >= 2
    /\ state.cameraActive
    /\ state.detection.found
    /\ effects = <<>>

\* C10: calibrationDataRef.current is null from the request of a calibration
\* until the requested pass has completed.
C10_AbsentWhileCalibrating ==
    sessions # <<>> => ~calibrationData.present

\* A requested pass is within its sampling window, has collected a second
\* frame, and no calibration data is stored.
C10_Witness ==
    /\ Len(sessions) = 1
    /\ StillSampling(sessions[1])
    /\ Len(sessions[1].frames) = 2
    /\ state.calibrating
    /\ ~calibrationData.present

\* The arithmetic mean of a non-empty sequence of fractions.
Mean(fs) ==
    LET sum == FracSum(fs)
    IN  Frac(sum[1], sum[2] * Len(fs))

\* This step is the call of collectFrame that ends pass j.
Completes(j) ==
    /\ sessions[j].frameId = "ready"
    /\ sessions' = Without(sessions, j)
    /\ calibrationData'.present

\* C11: the call of collectFrame that ends a pass stores as avgBrightness the
\* arithmetic mean of the per-frame averages of exactly the frames that pass
\* has read (the one read in this call included), and as threshold
\* avgBrightness + 50 + (100 - sensitivity), sensitivity being the one the
\* pass was requested with.
C11_CalibrationResult ==
    [][\A j \in 1..Len(sessions) :
          Completes(j)
          => LET fs == Append(sessions[j].frames, FrameAverage(frame'))
             IN  /\ calibrationData'.avgBrightness = Mean(fs)
                 /\ calibrationData'.threshold =
                        FracAdd(Mean(fs), <<50 + (100 - sessions[j].sensitivity), 1>>)]_vars

\* A pass requested with sensitivity 100 has completed over three frames of
\* which only the second held a white pixel: the mean is 85/9 and the
\* threshold 85/9 + 50.
C11_Witness ==
    /\ sessions = <<>>
    /\ state.calibrationComplete
    /\ calibrationData.present
    /\ calibrationData.avgBrightness = <<85, 9>>
    /\ calibrationData.threshold = <<535, 9>>
    /\ frame = DarkFrame

\* C13: in every reachable state calibrating = true implies cameraActive =
\* true, so that Calibrating is entered only from Active and left only to
\* Active.
C13_CalibratingOnlyWhileActive ==
    state.calibrating => state.cameraActive

\* The result processFrame gets from detectLaser(imageData, settings) while
\* calibrationDataRef.current is cal: detectLaser is a function of the module,
\* outside the hook, and is handed the frame and the settings only.
DetectionUnder(cal, imageData, st) == Detection[imageData, st]

\* C16: the detector takes the threshold of an installed calibration into
\* account: once a pass has stored its result, some frame and settings are
\* detected differently than they are with no calibration stored.
C16_CalibrationEntersDetection ==
    calibrationData.present
    => \E f \in CameraFrames, st \in SettingsChoices :
          DetectionUnder(calibrationData, f, st) # DetectionUnder(NoCalibration, f, st)

(***************************************************************************)
(* SpecLive: the hook under the browser's scheduling                      *)
(***************************************************************************)

\* The display keeps producing frames and the clock keeps advancing; the
\* browser runs every timer that is due and every animation-frame callback
\* that was requested, and React performs every render it has scheduled.
\* What the user does and what getUserMedia answers is under no obligation.
Scheduling ==
    /\ WF_vars(Tick(FrameMs))
    /\ WF_vars(\E i \in 1..Len(effects) : TimeoutFires(i))
    /\ WF_vars(\E i \in 1..Len(effects), f \in CameraFrames : ProcessFrame(i, TRUE, f))
    /\ WF_vars(\E j \in 1..Len(sessions), f \in CameraFrames : CollectFrame(j, f))
    /\ WF_vars(Render)

\* Detection is running: the current run of the effect has processed a frame.
Active == \E i \in 1..Len(effects) : effects[i].isActive /\ effects[i].sinceLast >= 0

\* Calibrate is pressed while detection is running, and the user then leaves
\* the application alone until detection runs again.
CalibratesInActive ==
    \/ Active /\ \E f \in CameraFrames : StartCalibration(f)
    \/ \E j \in 1..Len(sessions), f \in CameraFrames : CollectFrame(j, f)

NextLive == CameraStarts \/ FramesPass \/ CalibratesInActive \/ Render

SpecLive == WarmInit /\ [][NextLive]_vars /\ Scheduling

MaxEdgeSide == 2

\* (79, 200, 79) has brightness 119.33, between the bloomThreshold of
\* sensitivity 101 (119.2) and that of sensitivity 100 (120); (190, 230, 181)
\* has brightness 200.33, between the bloomThreshold of sensitivity 0 (200)
\* and that of sensitivity -1 (200.8).
EdgeColours == {<<79, 200, 79>>, <<190, 230, 181>>, Gray}

EdgeFrames ==
    {UniformFrame(w, h, c) : w \in 0..MaxEdgeSide, h \in 0..MaxEdgeSide, c \in EdgeColours}

\* setSettings takes any number; the slider's ends and one step beyond them.
EdgeSensitivities == {-1, 0, 100, 101}

EdgeInputs ==
    {<<f, [DefaultSettings EXCEPT !.colorMode = m, !.sensitivity = s]>> :
        f \in EdgeFrames, m \in ColorModes, s \in EdgeSensitivities}

InitEdge ==
    /\ \E input \in EdgeInputs :
          /\ frame = input[1]
          /\ settings = input[2]
    /\ state = InitialState
    /\ rendered = Deps(InitialState, DefaultSettings)
    /\ effects = <<>>
    /\ sessions = <<>>
    /\ positionHistory = <<>>
    /\ fpsHistory = <<>>
    /\ calibrationData = NoCalibration
    /\ streamRef = NoStream
    /\ streams = {}
    /\ calls = <<>>
    /\ raw = NotFound
    /\ log = <<>>
    /\ pc = "input"
    /\ sw = NoWorker

SpecEdge == InitEdge /\ [][NextDetect]_vars

\* The settings with sensitivity and smoothing replaced by the nearest bound
\* of their documented ranges, 0..100 and 0..10.
ClampSettings(st) ==
    [st EXCEPT !.sensitivity = Max(0, Min(100, @)), !.smoothing = Max(0, Min(10, @))]

\* C14: with a sensitivity outside 0..100, detectLaser returns what it
\* returns for the same frame with the sensitivity replaced by the nearest
\* bound of the range.
C14_OutOfRangeClamped ==
    pc = "detected" /\ settings.sensitivity \notin Sensitivities
    => raw = detectLaser(frame, ClampSettings(settings))

ZeroSized(imageData) == imageData.width = 0 \/ imageData.height = 0

\* C15: for a frame of width 0 or height 0 the outcome of detectLaser is an
\* error, not the ordinary result with found = false.
C15_ZeroSizedFrameFails ==
    pc = "detected" /\ ZeroSized(frame) => raw # NotFound

(***************************************************************************)
(* SpecFps: the frame rate tracking of processFrame, from a fresh hook     *)
(***************************************************************************)

\* The display delivers a frame every FastMs milliseconds, or, while the page
\* is in the background, one every PauseMs milliseconds.
FastMs == 600
PauseMs == 3000
FrameGaps == {FastMs, PauseMs}

\* Once a frame has come late, the frames after it do as well until the
\* samples taken at the late interval have left fpsHistory.
GapAllowed(d) ==
    d = PauseMs \/ \A k \in 1..Len(fpsHistory) : fpsHistory[k] # Frac(1000, PauseMs)

\* The camera sees the dark frame or the frame with the white pixel at (2, 2).
FpsFrames == {DarkFrame, SpotFrame(2, 2)}

FramesPassAt ==
    \/ \E d \in FrameGaps : GapAllowed(d) /\ Tick(d)
    \/ \E i \in 1..Len(effects) : TimeoutFires(i)
    \/ \E i \in 1..Len(effects), f \in FpsFrames : ProcessFrame(i, TRUE, f)

\* The camera is started and stopped while frames are processed.
NextFps == CameraStarts \/ StopCamera \/ FramesPassAt \/ Render

SpecFps == HookInit /\ [][NextFps]_vars

(***************************************************************************)
(* Claims about the frame rate (SpecFps)                                   *)
(***************************************************************************)

\* The sample processFrame of run i takes in this step: 1000 / (now - lastTime).
Sample(i) == Frac(1000, effects[i].sinceLast)

\* lastTime of run i is set: the run has processed a frame before.
Timed(i) == effects[i].sinceLast # -1

\* C17: fpsHistory never holds more than 30 samples, and a frame that is
\* processed while it holds 30 evicts the oldest sample and appends its own.
C17_FpsHistoryBounded ==
    [][/\ Len(fpsHistory') <= FpsCapacity
       /\ \A i \in 1..Len(effects) :
             Processes(i) /\ Timed(i) /\ Len(fpsHistory) = FpsCapacity
             => fpsHistory' = Append(Tail(fpsHistory), Sample(i))]_vars

\* A frame has just been processed and fpsHistory is full, its oldest sample
\* taken at the short interval and all others at the long one.
C17_Witness ==
    /\ \E i \in 1..Len(effects) : JustProcessed(i)
    /\ Len(fpsHistory) = FpsCapacity
    /\ fpsHistory[1] = Frac(1000, FastMs)
    /\ \A k \in 2..FpsCapacity : fpsHistory[k] = Frac(1000, PauseMs)

\* C18: when the last 30 samples were all taken at one interval d, which is
\* the case after 31 frames of one run spaced by d, the published fps is
\* round(1000 / d).
C18_ConstantIntervalFps ==
    \A d \in FrameGaps :
        /\ \E i \in 1..Len(effects) : JustProcessed(i)
        /\ Len(fpsHistory) = FpsCapacity
        /\ \A k \in 1..FpsCapacity : fpsHistory[k] = Frac(1000, d)
        => state.fps = MathRound(1000, d)

\* Thirty samples at the short interval: 1000 / 600 = 1.67 is published as 2.
C18_Witness ==
    /\ \E i \in 1..Len(effects) : JustProcessed(i)
    /\ Len(fpsHistory) = FpsCapacity
    /\ \A k \in 1..FpsCapacity : fpsHistory[k] = Frac(1000, FastMs)
    /\ state.fps = MathRound(1000, FastMs)
    /\ state.fps # 1000 \div FastMs

\* C19: the first frame a run of the effect processes appends nothing to
\* fpsHistory and leaves the published fps as it is, every later frame of
\* the run appends exactly one sample, and both publish their detection.
C19_FirstFrameUntimed ==
    [][\A i \in 1..Len(effects) :
          Processes(i)
          => /\ raw' = Detection[frame', effects[i].settings]
             /\ state'.detection.found = raw'.found
             /\ state'.detection.intensity = raw'.intensity
             /\ IF Timed(i)
                THEN fpsHistory' = IF Len(fpsHistory) < FpsCapacity
                                   THEN Append(fpsHistory, Sample(i))
                                   ELSE Append(Tail(fpsHistory), Sample(i))
                ELSE fpsHistory' = fpsHistory /\ state'.fps = state.fps]_vars

\* The first frame of the first run has been processed: its detection is
\* published, fpsHistory is empty and fps is still the initial 0.
C19_Witness ==
    /\ \E i \in 1..Len(effects) : JustProcessed(i)
    /\ state.detection.found
    /\ fpsHistory = <<>>
    /\ state.fps = InitialState.fps

\* C20: every fps value published with a sample in fpsHistory is positive.
C20_FpsPositive ==
    fpsHistory # <<>> => state.fps > 0

(***************************************************************************)
(* Claims about settings changes (SpecSmooth)                              *)
(***************************************************************************)

\* C21: every frame that is processed is detected and smoothed with the
\* settings most recently passed to setSettings, never with earlier ones.
C21_SettingsTakeEffectAtOnce ==
    [][\A i \in 1..Len(effects) :
          Processes(i)
          => LET d  == Detection[frame', settings]
                 sm == SmoothingBranch(positionHistory, d, settings)
             IN  /\ raw' = d
                 /\ positionHistory' = sm[1]
                 /\ state'.detection = Published(d, sm[2], sm[3])]_vars

(***************************************************************************)
(* The service worker (public/sw.js)                                       *)
(***************************************************************************)

\* The URLs the worker sees: '/' (the navigation), '/index.html' (the cached
\* shell), a same-origin asset outside CORE_ASSETS, a cross-origin asset.
Urls == {"/", "/index.html", "/asset", "foreign"}

\* CORE_ASSETS, as far as Urls holds them.
CORE_ASSETS == {"/", "/index.html"}

\* What a cache entry holds: nothing, the response cache.addAll stored at
\* install, or a response the fetch handler has put.
EmptyCache == [u \in Urls |-> "none"]

\* The requests of the page: the navigation, GETs of a same-origin and of a
\* cross-origin asset, a GET with cache = only-if-cached, and a POST.
Requests ==
    {[method |-> "GET",  mode |-> "navigate",    cache |-> "default",        url |-> "/"],
     [method |-> "GET",  mode |-> "cors",        cache |-> "default",        url |-> "/asset"],
     [method |-> "GET",  mode |-> "no-cors",     cache |-> "default",        url |-> "foreign"],
     [method |-> "GET",  mode |-> "no-cors",     cache |-> "only-if-cached", url |-> "/asset"],
     [method |-> "POST", mode |-> "cors",        cache |-> "default",        url |-> "/asset"]}

NoRequest == [method |-> "none", mode |-> "none", cache |-> "none", url |-> "none"]

\* What became of the request: kind is "none" (no request yet), "pending"
\* (the promise passed to respondWith is not settled), "passthrough" (the
\* listener returned without respondWith), "network" (the promise resolved to
\* the fetched response; ok is response.ok), "cache" (it resolved to the
\* cached response of key), "offline" (it resolved to the 503 'Offline'
\* response) or "rejected" (it rejected).
Outcome(kind, key, ok) == [kind |-> kind, key |-> key, ok |-> ok]

NoOutcome      == Outcome("none", "none", FALSE)
Pending        == Outcome("pending", "none", FALSE)
Passthrough    == Outcome("passthrough", "none", FALSE)
Fresh(ok)      == Outcome("network", "none", ok)
Cached(key)    == Outcome("cache", key, TRUE)
Offline        == Outcome("offline", "none", FALSE)
Rejected       == Outcome("rejected", "none", FALSE)

\* The page issues at most MaxRequests requests.
MaxRequests == 2

\* The worker when the browser starts to install it.  `at` is the await the
\* fetch handler stands at, `fetched` whether the network fetch of the
\* request has resolved (and with which response.ok), `puts` the keys of the
\* cache.put calls that have not settled.
WorkerInit ==
    [phase |-> "installing", cache |-> EmptyCache, req |-> NoRequest, at |-> "idle",
     fetched |-> "no", puts |-> {}, result |-> NoOutcome, served |-> 0]

\* The install and activate listeners: cache.addAll(CORE_ASSETS) stores all
\* of them or, when it rejects, none; either way the worker becomes active.
Install(added) ==
    /\ sw.phase = "installing"
    /\ sw' = [sw EXCEPT
                !.phase = "active",
                !.cache = IF added
                          THEN [u \in Urls |-> IF u \in CORE_ASSETS THEN "precached" ELSE "none"]
                          ELSE @]
    /\ UNCHANGED <<frame, settings, state, rendered, effects, sessions, positionHistory,
                   fpsHistory, calibrationData, streamRef, streams, calls, raw, log, pc>>

\* The handler moves to the await `at`.
Await(at) == [sw EXCEPT !.at = at]

\* The async function of respondWith settles.
Settle(worker, result) == [worker EXCEPT !.at = "idle", !.result = result]

\* `await caches.match(key)` has resolved: the entry, if there is one.
Match(key, otherwise) ==
    IF sw.cache[key] # "none" THEN Settle(sw, Cached(key)) ELSE otherwise

\* The fetch listener up to its first await.
FetchEvent(r) ==
    /\ sw.phase = "active"
    /\ sw.at = "idle"
    /\ sw.served < MaxRequests
    /\ LET taken == [sw EXCEPT !.req = r, !.served = @ + 1, !.fetched = "no"]
       IN  sw' = IF r.method # "GET" THEN [taken EXCEPT !.result = Passthrough]
                 ELSE IF r.cache = "only-if-cached" /\ r.mode # "same-origin"
                 THEN [taken EXCEPT !.result = Passthrough]
                 ELSE [taken EXCEPT !.result = Pending,
                                    !.at = IF r.mode = "navigate" THEN "nav fetch"
                                           ELSE "asset match"]
    /\ UNCHANGED <<frame, settings, state, rendered, effects, sessions, positionHistory,
                   fpsHistory, calibrationData, streamRef, streams, calls, raw, log, pc>>

\* Navigations: `await fetch(req)` resolves with a response (ok or not), or
\* rejects into the inner catch.
NavFetch(outcome) ==
    /\ sw.at = "nav fetch"
    /\ sw' = IF outcome = "ok" THEN [Await("nav open") EXCEPT !.fetched = "ok"]
             ELSE IF outcome = "not ok" THEN Settle([sw EXCEPT !.fetched = "not ok"], Fresh(FALSE))
             ELSE Await("nav shell")
    /\ UNCHANGED <<frame, settings, state, rendered, effects, sessions, positionHistory,
                   fpsHistory, calibrationData, streamRef, streams, calls, raw, log, pc>>

\* Navigations: `await caches.open(CACHE_NAME)` resolves (cache.put is called
\* and not awaited, the fresh response is returned) or rejects into the inner
\* catch.
NavOpen(resolves) ==
    /\ sw.at = "nav open"
    /\ sw' = IF resolves
             THEN Settle([sw EXCEPT !.puts = @ \cup {"/index.html"}], Fresh(TRUE))
             ELSE Await("nav shell")
    /\ UNCHANGED <<frame, settings, state, rendered, effects, sessions, positionHistory,
                   fpsHistory, calibrationData, streamRef, streams, calls, raw, log, pc>>

\* Navigations, inner catch: `await caches.match('/index.html')` resolves, or
\* rejects into the outer catch.
NavShell(resolves) ==
    /\ sw.at = "nav shell"
    /\ sw' = IF resolves THEN Match("/index.html", Settle(sw, Offline))
             ELSE Await("last match")
    /\ UNCHANGED <<frame, settings, state, rendered, effects, sessions, positionHistory,
                   fpsHistory, calibrationData, streamRef, streams, calls, raw, log, pc>>

\* Assets: `await caches.match(req)` resolves, or rejects into the outer catch.
AssetMatch(resolves) ==
    /\ sw.at = "asset match"
    /\ sw' = IF resolves THEN Match(sw.req.url, Await("asset fetch"))
             ELSE Await("last match")
    /\ UNCHANGED <<frame, settings, state, rendered, effects, sessions, positionHistory,
                   fpsHistory, calibrationData, streamRef, streams, calls, raw, log, pc>>

\* Assets: `await fetch(req)` resolves or rejects into the outer catch.
AssetFetch(outcome) ==
    /\ sw.at = "asset fetch"
    /\ sw' = IF outcome = "ok"
             THEN IF sw.req.url # "foreign" THEN [Await("asset open") EXCEPT !.fetched = "ok"]
                  ELSE Settle([sw EXCEPT !.fetched = "ok"], Fresh(TRUE))
             ELSE IF outcome = "not ok" THEN Settle([sw EXCEPT !.fetched = "not ok"], Fresh(FALSE))
             ELSE Await("last match")
    /\ UNCHANGED <<frame, settings, state, rendered, effects, sessions, positionHistory,
                   fpsHistory, calibrationData, streamRef, streams, calls, raw, log, pc>>

\* Assets: `await caches.open(CACHE_NAME)` resolves or rejects into the outer
\* catch.
AssetOpen(resolves) ==
    /\ sw.at = "asset open"
    /\ sw' = IF resolves
             THEN Settle([sw EXCEPT !.puts = @ \cup {sw.req.url}], Fresh(TRUE))
             ELSE Await("last match")
    /\ UNCHANGED <<frame, settings, state, rendered, effects, sessions, positionHistory,
                   fpsHistory, calibrationData, streamRef, streams, calls, raw, log, pc>>

\* The outer catch: `await caches.match(req)` resolves, or rejects, and with
\* it the async function.
LastMatch(resolves) ==
    /\ sw.at = "last match"
    /\ sw' = IF resolves THEN Match(sw.req.url, Settle(sw, Offline))
             ELSE Settle(sw, Rejected)
    /\ UNCHANGED <<frame, settings, state, rendered, effects, sessions, positionHistory,
                   fpsHistory, calibrationData, streamRef, streams, calls, raw, log, pc>>

\* A cache.put(key, fresh.clone()) settles: the entry is stored, or the put
\* rejects and `.catch(() => {})` swallows it.
PutSettles(key, stored) ==
    /\ key \in sw.puts
    /\ sw' = [sw EXCEPT !.puts = @ \ {key},
                        !.cache[key] = IF stored THEN "fresh" ELSE @]
    /\ UNCHANGED <<frame, settings, state, rendered, effects, sessions, positionHistory,
                   fpsHistory, calibrationData, streamRef, streams, calls, raw, log, pc>>

FetchOutcomes == {"ok", "not ok", "rejects"}

InitWorker ==
    /\ frame = NoFrame
    /\ settings = DefaultSettings
    /\ state = InitialState
    /\ rendered = Deps(InitialState, DefaultSettings)
    /\ effects = <<>>
    /\ sessions = <<>>
    /\ positionHistory = <<>>
    /\ fpsHistory = <<>>
    /\ calibrationData = NoCalibration
    /\ streamRef = NoStream
    /\ streams = {}
    /\ calls = <<>>
    /\ raw = NotFound
    /\ log = <<>>
    /\ pc = "worker"
    /\ sw = WorkerInit

NextWorker ==
    \/ \E added \in BOOLEAN : Install(added)
    \/ \E r \in Requests : FetchEvent(r)
    \/ \E outcome \in FetchOutcomes : NavFetch(outcome)
    \/ \E resolves \in BOOLEAN : NavOpen(resolves)
    \/ \E resolves \in BOOLEAN : NavShell(resolves)
    \/ \E resolves \in BOOLEAN : AssetMatch(resolves)
    \/ \E outcome \in FetchOutcomes : AssetFetch(outcome)
    \/ \E resolves \in BOOLEAN : AssetOpen(resolves)
    \/ \E resolves \in BOOLEAN : LastMatch(resolves)
    \/ \E key \in Urls, stored \in BOOLEAN : PutSettles(key, stored)

SpecWorker == InitWorker /\ [][NextWorker]_vars

\* C22: the promise passed to respondWith never rejects.
C22_RespondWithNeverRejects ==
    sw.result.kind # "rejected"

\* C23: a navigation is served network-first: when the network fetch has
\* resolved its response is the one returned; the cached '/index.html' is
\* returned only when the fetch failed, and the 503 'Offline' response only
\* when the fetch failed and no shell is cached.
C23_NavigationNetworkFirst ==
    sw.req.mode = "navigate" /\ sw.result.kind # "pending"
    => /\ sw.fetched # "no" => sw.result = Fresh(sw.fetched = "ok")
       /\ sw.result.kind = "cache" => sw.fetched = "no" /\ sw.result.key = "/index.html"
       /\ sw.result.kind = "offline" => sw.fetched = "no" /\ sw.cache["/index.html"] = "none"

(***************************************************************************)
(* SpecScan: detectLaser on dark frames with a few lit pixels              *)
(***************************************************************************)

\* The frames are ScanWidth x ScanHeight and dark but for the pixels at
\* SpotSites: three the scan visits, (0, 0), (16, 0) and (0, 2), the second
\* far enough from the borders that ten bloom samples fall inside the frame,
\* and one the scan skips, (1, 0).
ScanWidth == 31
ScanHeight == 3
SpotSites == <<<<0, 0>>, <<1, 0>>, <<16, 0>>, <<0, 2>>>>

Dark == <<0, 0, 0>>
\* Fires the saturated green rule only and scores above 400; its brightness
\* is below the saturation threshold of sensitivity 50.
DeepGreen == <<110, 255, 115>>
\* Fire both rules in auto mode, the red score (the green score) the larger.
WarmWhite == <<255, 250, 200>>
CoolWhite == <<251, 255, 200>>
\* Fires the green bloom rule at sensitivity -1 with a score of 201.
Dim == <<223, 201, 182>>

SpotColours == {Dark, White, DeepGreen, WarmWhite, CoolWhite, Dim}

\* The frame whose pixel at SpotSites[k] has the colour colours[k].
SpotsFrame(colours) ==
    ImageData(ScanWidth, ScanHeight,
              [x \in 0..(ScanWidth - 1), y \in 0..(ScanHeight - 1) |->
                 IF \E k \in 1..Len(SpotSites) : SpotSites[k] = <<x, y>>
                 THEN colours[CHOOSE k \in 1..Len(SpotSites) : SpotSites[k] = <<x, y>>]
                 ELSE Dark])

ScanFrames == {SpotsFrame(colours) : colours \in [1..Len(SpotSites) -> SpotColours]}

\* The default sensitivity, the slider's lower end, and one step below it,
\* where the score check can fail.
ScanSensitivities == {-1, 0, DefaultSettings.sensitivity}

ScanInputs ==
    {<<f, [DefaultSettings EXCEPT !.colorMode = m, !.sensitivity = s]>> :
        f \in ScanFrames, m \in ColorModes, s \in ScanSensitivities}

InitScan ==
    /\ \E input \in ScanInputs :
          /\ frame = input[1]
          /\ settings = input[2]
    /\ state = InitialState
    /\ rendered = Deps(InitialState, DefaultSettings)
    /\ effects = <<>>
    /\ sessions = <<>>
    /\ positionHistory = <<>>
    /\ fpsHistory = <<>>
    /\ calibrationData = NoCalibration
    /\ streamRef = NoStream
    /\ streams = {}
    /\ calls = <<>>
    /\ raw = NotFound
    /\ log = <<>>
    /\ pc = "input"
    /\ sw = NoWorker

SpecScan == InitScan /\ [][NextDetect]_vars

(* Claims about the candidate scan and the verification (SpecScan) *)

\* The pixels the scan loops visit.
Scanned(imageData) ==
    {p \in (0..(imageData.width - 1)) \X (0..(imageData.height - 1)) :
        p[1] % step = 0 /\ p[2] % step = 0}

\* <<r, g, b>> of the pixel at p.
Rgb(imageData, p) ==
    LET i == PixelIndex(imageData, p[1], p[2])
    IN  <<imageData.data[i], imageData.data[i + 1], imageData.data[i + 2]>>

\* The green (red) rule is enabled by colorMode and its saturated or its
\* bloom flag holds for the colour c.
GreenFires(c, st) ==
    /\ st.colorMode \in {"green", "auto"}
    /\ IsSaturatedGreen(c[1], c[2], c[3], st) \/ IsGreenBloom(c[1], c[2], c[3], st)

RedFires(c, st) ==
    /\ st.colorMode \in {"red", "auto"}
    /\ IsSaturatedRed(c[1], c[2], c[3], st) \/ IsRedBloom(c[1], c[2], c[3], st)

\* channel + 2 * max(0, dominance) + (100 if brightness > 250): the score the
\* green rule (main = 2, the others r and b) or the red rule (main = 1) gives.
RuleScore(c, main) ==
    LET others == IF main = 2 THEN Max(c[1], c[3]) ELSE Max(c[2], c[3])
    IN  c[main] + 2 * Max(0, c[main] - others)
        + (IF c[1] + c[2] + c[3] > 3 * 250 THEN 100 ELSE 0)

\* The score of a candidate of colour c: that of the rule that fires, the
\* larger one when both fire.
ExpectedScore(c, st) ==
    IF GreenFires(c, st) /\ RedFires(c, st) THEN Max(RuleScore(c, 2), RuleScore(c, 1))
    ELSE IF GreenFires(c, st) THEN RuleScore(c, 2)
    ELSE RuleScore(c, 1)

\* The indices at which the pixel p is listed among the candidates.
ListedAt(cands, p) == {k \in 1..Len(cands) : cands[k].x = p[1] /\ cands[k].y = p[2]}

\* C24: a scanned pixel is a candidate iff its mean brightness is at least
\* bloomThreshold and an enabled colour rule fires, and its score is the
\* score of that rule, the larger of the two when both rules fire.
C24_CandidateRule ==
    pc = "detected"
    => LET cands == ScanFrom(frame, settings, 0)
       IN  \A p \in Scanned(frame) :
              LET c == Rgb(frame, p)
              IN  /\ ListedAt(cands, p) # {}
                     <=> /\ 100 * (c[1] + c[2] + c[3]) >= 3 * bloomThreshold(settings)
                         /\ GreenFires(c, settings) \/ RedFires(c, settings)
                  /\ \A k \in ListedAt(cands, p) : cands[k].score = ExpectedScore(c, settings)

\* A pixel on which both rules fire with different scores was scanned in auto
\* mode and is a candidate with the larger score, another on which they tie.
C24_Witness ==
    /\ pc = "detected"
    /\ settings.colorMode = "auto"
    /\ LET cands == ScanFrom(frame, settings, 0)
       IN  /\ \E k \in 1..Len(cands) :
                LET c == <<cands[k].r, cands[k].g, cands[k].b>>
                IN  /\ GreenFires(c, settings) /\ RedFires(c, settings)
                    /\ RuleScore(c, 1) > RuleScore(c, 2)
                    /\ cands[k].score = RuleScore(c, 1)
           /\ \E k \in 1..Len(cands) :
                LET c == <<cands[k].r, cands[k].g, cands[k].b>>
                IN  /\ GreenFires(c, settings) /\ RedFires(c, settings)
                    /\ RuleScore(c, 1) = RuleScore(c, 2)

\* p comes before q in raster order, or is q.
RasterBefore(p, q) == p.y < q.y \/ (p.y = q.y /\ p.x <= q.x)

\* C25: the working hypothesis is a candidate of maximum score, and of the
\* candidates with that score the first in raster order.
C25_TopCandidate ==
    pc = "detected"
    => LET cands == ScanFrom(frame, settings, 0)
       IN  cands # <<>>
           => LET top == SortByScore(cands)[1]
              IN  /\ \E k \in 1..Len(cands) : cands[k] = top
                  /\ \A k \in 1..Len(cands) :
                        /\ cands[k].score <= top.score
                        /\ cands[k].score = top.score => RasterBefore(top, cands[k])

\* Two candidates share the maximum score, the one wins that lies in the
\* upper row although it is further right.
C25_Witness ==
    /\ pc = "detected"
    /\ LET cands == ScanFrom(frame, settings, 0)
       IN  /\ Len(cands) >= 2
           /\ LET top == SortByScore(cands)[1]
              IN  \E k \in 1..Len(cands) :
                     /\ cands[k].score = top.score
                     /\ cands[k].y > top.y
                     /\ cands[k].x < top.x

\* The offsets of the bloom samples along one axis.
BloomOffsets == {d \in (-bloomRadius)..bloomRadius : (d + bloomRadius) % BloomStep = 0}

\* The in-bounds bloom samples around the candidate c.
BloomSamples(imageData, c) ==
    {p \in {<<c.x + dx, c.y + dy>> : dx \in BloomOffsets, dy \in BloomOffsets} :
        InBounds(imageData, p[1], p[2])}

\* The candidate c passes the score check and the bloom check: its score is
\* greater than 200 - sensitivityFactor * 100, and the fraction of its bloom
\* samples brighter than 0.7 * bloomThreshold is greater than the double
\* 0.15 - sensitivityFactor * 0.1, which at the sensitivities of
\* BloomRatioRoundsLow lies just below the decimal number.
PassesBoth(imageData, st, c) ==
    LET samples == BloomSamples(imageData, c)
        bright  == {p \in samples :
                      IsBloomPixel(Brightness3(imageData.data,
                                               PixelIndex(imageData, p[1], p[2])), st)}
        lhs     == 1000 * Cardinality(bright)
        rhs     == (150 - st.sensitivity) * Cardinality(samples)
    IN  /\ c.score > 200 - st.sensitivity
        /\ samples # {}
        /\ IF st.sensitivity \in BloomRatioRoundsLow THEN lhs >= rhs ELSE lhs > rhs

\* C26: found is true iff there is a candidate and the top candidate passes
\* the score check and the bloom check, whatever the other candidates would
\* do.
C26_FoundIffTopPasses ==
    pc = "detected"
    => LET cands == ScanFrom(frame, settings, 0)
       IN  raw.found <=> /\ cands # <<>>
                         /\ PassesBoth(frame, settings, SortByScore(cands)[1])

\* The top candidate fails a check and the result is found = false although a
\* candidate of lower score passes both.
C26_Witness ==
    /\ pc = "detected"
    /\ ~raw.found
    /\ LET cands == ScanFrom(frame, settings, 0)
       IN  \E k \in 1..Len(cands) :
              /\ cands[k].score < SortByScore(cands)[1].score
              /\ PassesBoth(frame, settings, cands[k])

\* C27: when found is true, detectedColor is green iff the top candidate's g
\* is greater than its r, and red otherwise, also when g = r and whichever
\* rule gave the candidate its score.
C27_ColourByChannels ==
    pc = "detected" /\ raw.found
    => LET top == SortByScore(ScanFrom(frame, settings, 0))[1]
       IN  /\ raw.detectedColor \in {"green", "red"}
           /\ raw.detectedColor = "green" <=> top.g > top.r

\* A beam was found in green mode at a pixel with g = r and is reported red.
C27_Witness ==
    /\ pc = "detected" /\ raw.found
    /\ settings.colorMode = "green"
    /\ LET top == SortByScore(ScanFrom(frame, settings, 0))[1]
       IN  top.g = top.r /\ raw.detectedColor = "red"

\* The in-bounds pixels within refineRadius of the candidate c whose
\* brightness is greater than saturationThreshold.
SaturatedAround(imageData, st, c) ==
    {p \in ((c.x - refineRadius)..(c.x + refineRadius))
             \X ((c.y - refineRadius)..(c.y + refineRadius)) :
        /\ InBounds(imageData, p[1], p[2])
        /\ 100 * Brightness3(imageData.data, PixelIndex(imageData, p[1], p[2]))
              > 3 * saturationThreshold(st)}

\* <<sum of x * weight, sum of y * weight, sum of weight>> over the pixels of
\* S, the weight of a pixel being r + g + b.
RECURSIVE CentroidSums(_, _)
CentroidSums(imageData, S) ==
    IF S = {} THEN <<0, 0, 0>>
    ELSE LET p    == CHOOSE q \in S : TRUE
             w    == Brightness3(imageData.data, PixelIndex(imageData, p[1], p[2]))
             rest == CentroidSums(imageData, S \ {p})
         IN  <<rest[1] + p[1] * w, rest[2] + p[2] * w, rest[3] + w>>

\* v is an integer nearest to n / d, d > 0.
NearestTo(v, n, d) == 2 * Abs(v * d - n) <= d

\* C28: when found is true the position is the weighted centroid, rounded to
\* the nearest integer, of the saturated pixels within radius 10 of the top
\* candidate, and the top candidate's own coordinates when there is none.
C28_RefinedPosition ==
    pc = "detected" /\ raw.found
    => LET top  == SortByScore(ScanFrom(frame, settings, 0))[1]
           sums == CentroidSums(frame, SaturatedAround(frame, settings, top))
       IN  IF sums[3] = 0 THEN raw.x = top.x /\ raw.y = top.y
           ELSE NearestTo(raw.x, sums[1], sums[3]) /\ NearestTo(raw.y, sums[2], sums[3])

\* The centroid of two saturated pixels of different brightness moved the
\* position off the top candidate.
C28_Witness ==
    /\ pc = "detected" /\ raw.found
    /\ LET top == SortByScore(ScanFrom(frame, settings, 0))[1]
           sat == SaturatedAround(frame, settings, top)
       IN  /\ Cardinality(sat) >= 2
           /\ raw.x # top.x
           /\ 2 * CentroidSums(frame, sat)[1] # CentroidSums(frame, sat)[3]

\* C29: the intensity is an integer of 0..100: when found is true the top
\* candidate's score / 4 rounded to the nearest integer (halves upward) and
\* capped at 100, and 0 when found is false.
C29_Intensity ==
    pc = "detected"
    => /\ raw.intensity \in 0..100
       /\ IF raw.found
          THEN LET top == SortByScore(ScanFrom(frame, settings, 0))[1]
               IN  \E q \in 0..255 :
                      /\ 4 * q - 2 <= top.score /\ top.score < 4 * q + 2
                      /\ raw.intensity = IF q > 100 THEN 100 ELSE q
          ELSE raw.intensity = 0

\* A beam was found whose score / 4 exceeds 100 and is reported as 100.
C29_Witness ==
    /\ pc = "detected" /\ raw.found
    /\ SortByScore(ScanFrom(frame, settings, 0))[1].score > 402
    /\ raw.intensity = 100

(* Claims about the history after a lost beam (SpecSmooth) *)

\* C30: after every processed frame whose detection has found = false,
\* positionHistory is empty, whatever the smoothing setting is and whatever
\* the history held before.
C30_HistoryEmptyOnLoss ==
    [][\A i \in 1..Len(effects) :
          Processes(i) /\ ~raw'.found => positionHistory' = <<>>]_vars

\* A found frame and then a frame without detection have been processed with
\* smoothing on: the entry the first left in the history is gone.
C30_Witness ==
    /\ Len(log) >= 2
    /\ log[Len(log) - 1].found
    /\ ~LastRaw.found /\ ~raw.found
    /\ \E i \in 1..Len(effects) : JustProcessed(i) /\ effects[i].settings.smoothing > 0
    /\ positionHistory = <<>>

(* Claims about the history across settings changes and gaps *)

\* The number of found frames at the end of l.
RECURSIVE FoundRun(_)
FoundRun(l) ==
    IF l = <<>> \/ ~l[Len(l)].found THEN 0
    ELSE 1 + FoundRun(SubSeq(l, 1, Len(l) - 1))

\* C31: positionHistory is a suffix, oldest first, of the raw positions of
\* the current run of found frames: counted from their ends, the history and
\* the run of found frames that ends the log agree entry by entry, and the
\* history is empty when the last frame had no detection.
C31_HistoryIsRecentRun ==
    log # <<>>
    => /\ ~LastRaw.found => positionHistory = <<>>
       /\ \A k \in 1..Min(Len(positionHistory), FoundRun(log)) :
             positionHistory[Len(positionHistory) - k + 1]
                = <<log[Len(log) - k + 1].x, log[Len(log) - k + 1].y>>

(***************************************************************************)
(* SpecGap: the camera is started and stopped and calibration passes run,  *)
(* with the settings left alone, so that the processing effect restarts    *)
(* only after a stop or a calibration pass                                 *)
(***************************************************************************)

NextGap == CameraStarts \/ StopCamera \/ FramesPass \/ Calibrates \/ Render

SpecGap == WarmInit /\ [][NextGap]_vars

\* C32: the first frame with a detection that is processed after a
\* calibration pass or after stopCamera and startCamera is reported at its
\* raw position.
C32_ResumesAtRawPosition ==
    [][\A i \in 1..Len(effects) :
          Processes(i) /\ log = <<>> /\ raw'.found
          => Reported(state') = RawPosition(raw')]_vars

(* Claims about the processing loop and the camera (Spec) *)

\* C33: while the camera is off no frame is processed and neither a
\* detection nor an fps value is published, whatever was scheduled before
\* stopCamera.
C33_NothingEmittedWhileStopped ==
    [][~state.cameraActive
       => /\ \A i \in 1..Len(effects) : ~Processes(i)
          /\ state'.detection = state.detection
          /\ state'.fps = state.fps
          /\ positionHistory' = positionHistory
          /\ fpsHistory' = fpsHistory]_vars

\* The camera was stopped after a detection had been published, and the loop
\* that published it is gone.
C33_Witness ==
    /\ ~state.cameraActive
    /\ streamRef = NoStream
    /\ state.detection.found
    /\ \A i \in 1..Len(effects) : ~effects[i].isActive

\* The runs of the processing effect that can still process a frame.
LiveLoops == {i \in 1..Len(effects) : effects[i].isActive /\ Scheduled(effects[i])}

\* C34: at most one frame-processing loop is live at any time, and a loop
\* that was torn down has neither a timeout nor an animation-frame callback
\* that could still process a frame.
C34_OneLiveLoop ==
    /\ Cardinality(LiveLoops) <= 1
    /\ \A i \in 1..Len(effects) : effects[i].frameId = "ready" => i \in LiveLoops

\* The loop was torn down by a change of the sensitivity, and its successor
\* has processed a frame.
C34_Witness ==
    /\ log # <<>>
    /\ \E i \in LiveLoops : effects[i].settings.sensitivity # DefaultSettings.sensitivity
    /\ Cardinality(LiveLoops) = 1

(* Further claims about detectLaser (SpecScan) *)

\* C35: a beam found with colorMode green is never reported as red, and a
\* beam found with colorMode red is never reported as green.
C35_ColourModeFiltersOutput ==
    pc = "detected" /\ raw.found
    => /\ settings.colorMode = "green" => raw.detectedColor # "red"
       /\ settings.colorMode = "red" => raw.detectedColor # "green"

\* C36: when found is true the position lies inside the frame and within 10
\* pixels of the top candidate on each axis.
C36_PositionInFrame ==
    pc = "detected" /\ raw.found
    => LET top == SortByScore(ScanFrom(frame, settings, 0))[1]
       IN  /\ 0 <= raw.x /\ raw.x < frame.width
           /\ 0 <= raw.y /\ raw.y < frame.height
           /\ Abs(raw.x - top.x) <= 10
           /\ Abs(raw.y - top.y) <= 10

\* In a frame lower than the refinement neighbourhood a beam was found whose
\* top candidate has no saturated pixel of its own and whose position was
\* moved by the saturated pixels around it.
C36_Witness ==
    /\ pc = "detected" /\ raw.found
    /\ frame.height < 2 * 10 + 1
    /\ LET top == SortByScore(ScanFrom(frame, settings, 0))[1]
       IN  /\ <<top.x, top.y>> \notin SaturatedAround(frame, settings, top)
           /\ raw.x # top.x

(***************************************************************************)
(* SpecCamera: the start button can be pressed again while an earlier      *)
(* startCamera is still waiting for getUserMedia or play()                 *)
(***************************************************************************)

NextCamera ==
    \/ StartCamera
    \/ \E k \in 1..Len(calls) : GetUserMediaResolves(k)
    \/ \E k \in 1..Len(calls) : StartCameraFails(k)
    \/ \E k \in 1..Len(calls) : PlayResolves(k)
    \/ StopCamera
    \/ FramesPass
    \/ Render

SpecCamera == WarmInit /\ [][NextCamera]_vars

\* C37: every stream that getUserMedia has handed out and whose tracks have
\* not been stopped is the stream held in streamRef.
C37_StreamsHeldOrStopped ==
    streams \subseteq {streamRef}

\* C38: an invocation of startCamera ends either in failure, with error set
\* to a message and cameraActive as it was, or after play() has resolved,
\* with cameraActive true and error null; cameraActive becomes true in no
\* other step.
C38_FailureIsState ==
    [][/\ Len(calls') < Len(calls)
          => \/ /\ state'.error # null
                /\ state'.cameraActive = state.cameraActive
             \/ /\ \E k \in 1..Len(calls) : calls[k].stage = "play" /\ calls' = Without(calls, k)
                /\ state'.cameraActive
                /\ state'.error = null
       /\ ~state.cameraActive /\ state'.cameraActive
          => /\ \E k \in 1..Len(calls) : calls[k].stage = "play" /\ calls' = Without(calls, k)
             /\ state'.error = null]_vars

\* A second invocation failed after the first had turned the camera on: the
\* error is set and the camera is still on.
C38_Witness ==
    /\ state.error # null
    /\ state.cameraActive
    /\ calls = <<>>

(***************************************************************************)
(* The service worker bootstrap of main.tsx                                *)
(***************************************************************************)

\* The browser has at most MaxTabs tabs of the application, which load it at
\* most MaxLoads times in all.
MaxTabs == 2
MaxLoads == 3
Tabs == 1..MaxTabs

\* The browser before the application is opened: localStorage has no
\* 'sw-cleaned' item (flag), `regs` service workers are registered for the
\* origin, cache storage holds caches or not, and no tab is open.  `reloads`
\* counts the calls of window.location.reload(), `loads` the page loads.
Browser(regs, cached) ==
    [phase |-> "browser", flag |-> FALSE, regs |-> regs, cached |-> cached,
     at |-> [t \in Tabs |-> "closed"], registered |-> [t \in Tabs |-> FALSE],
     reloads |-> 0, loads |-> 0]

\* A page load runs main.tsx up to the first await of
\* cleanupLegacyServiceWorkersOnce: where the function stands afterwards.
AfterLoad(flag) == IF flag THEN "done" ELSE "getRegistrations"

\* A tab opens the application, or the user reloads it.
LoadPage(t) ==
    /\ sw.loads < MaxLoads
    /\ sw' = [sw EXCEPT !.at[t] = AfterLoad(sw.flag), !.registered[t] = FALSE,
                        !.loads = @ + 1]
    /\ UNCHANGED <<frame, settings, state, rendered, effects, sessions, positionHistory,
                   fpsHistory, calibrationData, streamRef, streams, calls, raw, log, pc>>

\* The tab is closed; what its page was waiting for never runs.
CloseTab(t) ==
    /\ sw.at[t] # "closed"
    /\ sw' = [sw EXCEPT !.at[t] = "closed"]
    /\ UNCHANGED <<frame, settings, state, rendered, effects, sessions, positionHistory,
                   fpsHistory, calibrationData, streamRef, streams, calls, raw, log, pc>>

\* The load event of a production build: navigator.serviceWorker.register.
RegisterWorker(t, resolves) ==
    /\ sw.at[t] # "closed"
    /\ ~sw.registered[t]
    /\ sw' = [sw EXCEPT !.registered[t] = TRUE,
                        !.regs = IF resolves THEN Max(@, 1) ELSE @]
    /\ UNCHANGED <<frame, settings, state, rendered, effects, sessions, positionHistory,
                   fpsHistory, calibrationData, streamRef, streams, calls, raw, log, pc>>

\* `await navigator.serviceWorker.getRegistrations()` settles: without
\* registrations the flag is stored and the function returns.
GetRegistrations(t, resolves) ==
    /\ sw.at[t] = "getRegistrations"
    /\ sw' = IF ~resolves THEN [sw EXCEPT !.at[t] = "done"]
             ELSE IF sw.regs = 0 THEN [sw EXCEPT !.at[t] = "done", !.flag = TRUE]
             ELSE [sw EXCEPT !.at[t] = "unregister"]
    /\ UNCHANGED <<frame, settings, state, rendered, effects, sessions, positionHistory,
                   fpsHistory, calibrationData, streamRef, streams, calls, raw, log, pc>>

\* `await Promise.all(regs.map(r => r.unregister()))` settles.
Unregister(t, resolves) ==
    /\ sw.at[t] = "unregister"
    /\ sw' = IF resolves THEN [sw EXCEPT !.at[t] = "caches", !.regs = 0]
             ELSE [sw EXCEPT !.at[t] = "done"]
    /\ UNCHANGED <<frame, settings, state, rendered, effects, sessions, positionHistory,
                   fpsHistory, calibrationData, streamRef, streams, calls, raw, log, pc>>

\* The caches are deleted (or caches.keys / caches.delete rejects); then the
\* flag is stored and the page reloaded: the reload is a page load of its own.
DeleteCachesAndReload(t, resolves) ==
    /\ sw.at[t] = "caches"
    /\ sw' = IF resolves
             THEN [sw EXCEPT !.cached = FALSE, !.flag = TRUE, !.reloads = @ + 1,
                             !.at[t] = AfterLoad(TRUE), !.registered[t] = FALSE]
             ELSE [sw EXCEPT !.at[t] = "done"]
    /\ UNCHANGED <<frame, settings, state, rendered, effects, sessions, positionHistory,
                   fpsHistory, calibrationData, streamRef, streams, calls, raw, log, pc>>

InitBoot ==
    /\ frame = NoFrame
    /\ settings = DefaultSettings
    /\ state = InitialState
    /\ rendered = Deps(InitialState, DefaultSettings)
    /\ effects = <<>>
    /\ sessions = <<>>
    /\ positionHistory = <<>>
    /\ fpsHistory = <<>>
    /\ calibrationData = NoCalibration
    /\ streamRef = NoStream
    /\ streams = {}
    /\ calls = <<>>
    /\ raw = NotFound
    /\ log = <<>>
    /\ pc = "boot"
    /\ \E regs \in 0..1, cached \in BOOLEAN : sw = Browser(regs, cached)

NextBoot ==
    \/ \E t \in Tabs : LoadPage(t)
    \/ \E t \in Tabs : CloseTab(t)
    \/ \E t \in Tabs, resolves \in BOOLEAN : RegisterWorker(t, resolves)
    \/ \E t \in Tabs, resolves \in BOOLEAN : GetRegistrations(t, resolves)
    \/ \E t \in Tabs, resolves \in BOOLEAN : Unregister(t, resolves)
    \/ \E t \in Tabs, resolves \in BOOLEAN : DeleteCachesAndReload(t, resolves)

SpecBoot == InitBoot /\ [][NextBoot]_vars

\* C39: the cleanup reloads the page at most once while the 'sw-cleaned'
\* flag lasts, and once the flag is set no page load unregisters service
\* workers, deletes caches or reloads.
C39_AtMostOneReload ==
    sw.reloads <= 1

====
